---- MODULE Spec2Model ----
(***************************************************************************)
(* Model of server.py: the POST /deobfuscate handler (one thread per       *)
(* request, Flask threaded=True), build_moonsec, the startup background    *)
(* build, the filesystem they share, and the pure formatter format_output. *)
(*                                                                         *)
(* Texts are sequences of one-character strings.                           *)
(***************************************************************************)
EXTENDS Integers, Sequences, FiniteSets, TLC

\* ------------------------------------------------------------------ bounds

\* Longest text given to format_output in SpecFmt.
MaxLen == 4
\* How many times SpecFmt applies format_output to its own result.
MaxPasses == 2

\* ------------------------------------------------------------ format_output

\* The alphabet of the texts: the three characters the bytecode formatter
\* rewrites, three whitespace characters (one of them the line separator) and
\* one ordinary character.
Chars == {";", "{", "}", " ", "\t", "\n", "a"}

\* What str.rstrip() / str.strip() without an argument remove.
Whitespace == {" ", "\t", "\n"}

RECURSIVE TextsOfLen(_)
TextsOfLen(n) ==
    IF n = 0 THEN {<<>>}
    ELSE {<<c>> \o t : c \in Chars, t \in TextsOfLen(n - 1)}

Texts == UNION {TextsOfLen(n) : n \in 0..MaxLen}

\* str.split('\n'): always at least one piece.
RECURSIVE split(_)
split(s) ==
    IF \A i \in 1..Len(s) : s[i] # "\n" THEN <<s>>
    ELSE LET k == CHOOSE i \in 1..Len(s) :
                      s[i] = "\n" /\ \A j \in 1..(i - 1) : s[j] # "\n"
         IN  <<SubSeq(s, 1, k - 1)>> \o split(SubSeq(s, k + 1, Len(s)))

\* A faulty variant of rstrip: only blanks are removed, a trailing tab stays.
RECURSIVE rstripBlanksOnly(_)
rstripBlanksOnly(s) ==
    IF s # <<>> /\ s[Len(s)] = " "
    THEN rstripBlanksOnly(SubSeq(s, 1, Len(s) - 1))
    ELSE s

\* str.rstrip()
RECURSIVE rstrip(_)
rstrip(s) ==
    IF s # <<>> /\ s[Len(s)] \in Whitespace
    THEN rstrip(SubSeq(s, 1, Len(s) - 1))
    ELSE s

\* str.lstrip()
RECURSIVE lstrip(_)
lstrip(s) ==
    IF s # <<>> /\ s[1] \in Whitespace THEN lstrip(Tail(s)) ELSE s

\* str.strip()
strip(s) == lstrip(rstrip(s))

\* '\n'.join(lines)
RECURSIVE join(_)
join(lines) ==
    IF lines = <<>> THEN <<>>
    ELSE IF Len(lines) = 1 THEN lines[1]
    ELSE lines[1] \o <<"\n">> \o join(Tail(lines))

\* str.replace(old, new) for a one-character old.
RECURSIVE replace(_, _, _)
replace(s, old, new) ==
    IF s = <<>> THEN <<>>
    ELSE (IF s[1] = old THEN new ELSE <<s[1]>>) \o replace(Tail(s), old, new)

\* The loop of lines 231-234: rstrip each line, keep it when non-empty.
RECURSIVE stripAndKeep(_)
stripAndKeep(lines) ==
    IF lines = <<>> THEN <<>>
    ELSE LET line == rstrip(lines[1])
         IN  (IF line # <<>> THEN <<line>> ELSE <<>>) \o stripAndKeep(Tail(lines))

\* A faulty variant of keepLine: no line is dropped.
keepEveryLine(line) == TRUE

\* The filter of line 245: `if line.strip()`.
keepLine(line) == strip(line) # <<>>

\* The comprehension of line 245: [line.rstrip() for line in lines if line.strip()]
RECURSIVE rstripKept(_)
rstripKept(lines) ==
    IF lines = <<>> THEN <<>>
    ELSE (IF keepLine(lines[1]) THEN <<rstrip(lines[1])>> ELSE <<>>)
         \o rstripKept(Tail(lines))

format_output(content, is_disassembly) ==
    IF content = <<>> THEN content
    ELSE IF is_disassembly
    THEN join(stripAndKeep(split(content)))
    ELSE LET f1 == replace(content, ";", <<";", "\n">>)
             f2 == replace(f1, "{", <<"{", "\n">>)
             f3 == replace(f2, "}", <<"\n", "}">>)
         IN  join(rstripKept(split(f3)))

\* ------------------------------------------------------------------- state

VARIABLES
    toolDirExists,   \* MOONSEC_PATH.exists()
    buildDirExists,  \* BUILD_PATH.exists()
    buildFiles,      \* which of the files probed in BUILD_PATH exist
    inFile,          \* temp name -> the request whose input file has that name, 0: no file
    outFile,         \* temp name -> the file "<name>.output", NoFile: none
    bgpc,            \* the startup build thread: off, clean, build, done
    pc,              \* request -> where its handler stands
    data,            \* request -> what the body was (request.get_json())
    tmp_name,        \* request -> f.name of the temp file it created, 0: none yet
    input_path,      \* request -> input_path once assigned (line 106), 0: unassigned
    cmd,             \* request -> the command line built for the tool
    response,        \* request -> the response of its return statement
    built,           \* request -> it called build_moonsec()
    slowBuild,       \* request -> its build ran longer than the timeout
    toolOutcome,     \* request -> how subprocess.run of the tool ended
    text,            \* SpecFmt: the text given to format_output
    disassembly_mode,\* SpecFmt: the is_disassembly argument
    fmtPrev,         \* SpecFmt: the argument of the latest application
    fmtOut,          \* SpecFmt: the result of the latest application
    passes           \* SpecFmt: applications so far

fsVars  == <<toolDirExists, buildDirExists, buildFiles, inFile, outFile>>
reqVars == <<pc, data, tmp_name, input_path, cmd, response, built, slowBuild,
             toolOutcome>>
fmtVars == <<text, disassembly_mode, fmtPrev, fmtOut, passes>>
vars    == <<fsVars, bgpc, reqVars, fmtVars>>

\* The requests in flight at once (Flask threaded=True: one thread each).
NumRequests == 2
Requests == 1..NumRequests

\* The names tempfile can draw: one per request is always free.
Names == 1..NumRequests

\* The configured timeout of the tool run, in seconds.
ToolTimeout == 30

\* ----------------------------------------------------------- request bodies

\* What request.get_json() can meet. kind:
\*   none     no JSON body at all
\*   invalid  a body that is not JSON
\*   falsy    JSON null, false, 0, "", [] or {}
\*   number   a non-zero number or true
\*   string   a non-empty JSON string
\*   array    a non-empty JSON array
\*   object   a non-empty JSON object
\* mentions: the value of Python's `'content' in data` (a key of an object, an
\* element of an array, a substring of a string). content: "str" when the
\* object's content is a non-empty string f.write accepts, "other" when it is
\* a value f.write rejects (a number, null, an array, an object, a string that
\* utf-8 cannot encode), "none" when there is no such key. disassembly and pretty are the
\* values data.get() yields, defaults included; the body fixes them, and the
\* model settles each when the handler first uses it ("unread" until then).
Body(k, m, c, d, p) ==
    [kind |-> k, mentions |-> m, content |-> c, disassembly |-> d, pretty |-> p]

Bodies ==
    {Body(k, FALSE, "none", "unread", "unread") : k \in {"none", "invalid", "falsy", "number"}}
    \cup {Body(k, m, "none", "unread", "unread") : k \in {"string", "array"}, m \in BOOLEAN}
    \cup {Body("object", FALSE, "none", "unread", "unread")}
    \cup {Body("object", TRUE, c, "unread", "unread") : c \in {"other", "str"}}

NoBody == Body("unset", FALSE, "none", "unread", "unread")

\* The body carries a 'content' field: it is a JSON object with that key.
HasContentField(body) == body.kind = "object" /\ body.mentions

\* Without a JSON body get_json() returns None or raises, by the Flask version.
GetJsonBehaviours == {"returns_none", "raises"}

\* Lines 88-94. "raise": an exception reaches the outer handler; "missing": the
\* 400 answer; "ok": the handler goes on.
ValidationOutcome(body, lib) ==
    CASE body.kind = "invalid" -> "raise"
      [] body.kind = "none"    -> IF lib = "raises" THEN "raise" ELSE "missing"
      [] body.kind = "falsy"   -> "missing"
      [] body.kind = "number"  -> "raise"      \* 'content' in 5: TypeError
      [] OTHER                 -> IF body.mentions THEN "ok" ELSE "missing"

\* Line 105: data['content'] raises on a string or an array, f.write raises on
\* a value that is no string.
WriteRaises(body) == body.kind # "object" \/ body.content # "str"

\* Lines 112-113.
command(body) == IF body.disassembly THEN "-dis" ELSE "-dev"

\* Line 187.
format_name(body) == IF body.disassembly THEN "disassembly" ELSE "bytecode"

\* ---------------------------------------------------------------- responses

NoResult == <<"<absent>">>

JsonResponse(status, success, result, format, error) ==
    [status |-> status, success |-> success, result |-> result,
     format |-> format, error |-> error]

NoResponse == JsonResponse(0, FALSE, NoResult, "", "")

\* Lines 91-94.
NoContentResponse == JsonResponse(400, FALSE, NoResult, "", "No content provided")
\* Lines 98-101.
ToolDirMissingResponse == JsonResponse(500, FALSE, NoResult, "", "MoonsecDeobfuscator not found")
\* Lines 118-121.
BuildFailedResponse == JsonResponse(500, FALSE, NoResult, "", "Failed to build Moonsec tool")
\* Lines 143-146.
ExeNotFoundResponse == JsonResponse(500, FALSE, NoResult, "", "Moonsec executable not found")
\* Lines 170-173.
ToolFailedResponse == JsonResponse(500, FALSE, NoResult, "", "Deobfuscation failed")
\* Lines 184-189.
SuccessResponse(result, format) == JsonResponse(200, TRUE, result, format, "")
\* A faulty variant of OutputMissingResponse: the status of the return is left out.
OutputMissingResponseNoStatus == JsonResponse(200, FALSE, NoResult, "", "Output file was not created")
\* Lines 191-194.
OutputMissingResponse == JsonResponse(500, FALSE, NoResult, "", "Output file was not created")
\* A faulty variant of TimeoutResponse: the timeout is answered as any other exception.
TimeoutAsProcessingError == JsonResponse(500, FALSE, NoResult, "", "Processing error")
\* Lines 196-200.
TimeoutResponse == JsonResponse(500, FALSE, NoResult, "", "Process timed out after 30 seconds")
\* Lines 201-205.
ProcessingErrorResponse == JsonResponse(500, FALSE, NoResult, "", "Processing error")
\* Lines 216-220.
ServerErrorResponse == JsonResponse(500, FALSE, NoResult, "", "Server error")

\* --------------------------------------------------------------- filesystem

NoFile == [owner |-> 0, text |-> <<>>]

\* What the tool may write into its output file.
ToolOutputs == {<<>>, <<" ", "\n">>, <<"a", ";", "}">>}

\* What a successful `dotnet build` leaves in BUILD_PATH.
BuildProducts == {{"dll"}, {"exe_unix", "dll"}, {"exe_win", "exe_unix", "dll"}}

\* Lines 125-135: the first candidate that exists ("none": no one does). The
\* third and fourth candidates are the first and second again.
possible_paths == <<"exe_win", "exe_unix", "exe_win", "exe_unix">>
exe_path ==
    LET hits == {i \in 1..Len(possible_paths) : possible_paths[i] \in buildFiles}
    IN  IF hits = {} THEN "none"
        ELSE possible_paths[CHOOSE i \in hits : \A j \in hits : i <= j]

\* A faulty variant of BuildNeeded: a single-flight guard, no second build while one runs.
BuildNeededUnlessRunning ==
    /\ ~buildDirExists
    /\ bgpc \notin {"clean", "build"}
    /\ \A q \in Requests : pc[q] \notin {"clean", "build"}

\* Line 116.
BuildNeeded == ~buildDirExists

\* ------------------------------------------------------------------ actions

Init ==
    /\ toolDirExists \in BOOLEAN
    /\ buildDirExists \in (IF toolDirExists THEN BOOLEAN ELSE {FALSE})
    /\ buildFiles \in (IF buildDirExists THEN BuildProducts \cup {{}} ELSE {{}})
    /\ inFile = [n \in Names |-> 0]
    /\ outFile = [n \in Names |-> NoFile]
    \* Lines 275-294: run as a script the server only starts, with the build
    \* thread, when the tool directory exists; imported by a WSGI server it has
    \* no build thread.
    /\ bgpc \in (IF toolDirExists THEN {"off", "clean"} ELSE {"off"})
    /\ pc = [r \in Requests |-> "idle"]
    /\ data = [r \in Requests |-> NoBody]
    /\ tmp_name = [r \in Requests |-> 0]
    /\ input_path = [r \in Requests |-> 0]
    /\ cmd = [r \in Requests |-> [exe |-> "none", flag |-> ""]]
    /\ response = [r \in Requests |-> NoResponse]
    /\ built = [r \in Requests |-> FALSE]
    /\ slowBuild = [r \in Requests |-> FALSE]
    /\ toolOutcome = [r \in Requests |-> "not run"]
    /\ text = <<>> /\ disassembly_mode = FALSE
    /\ fmtPrev = <<>> /\ fmtOut = <<>> /\ passes = 0

\* A return statement: the response, and where the handler goes next.
Return(r, resp, next) ==
    /\ response' = [response EXCEPT ![r] = resp]
    /\ pc' = [pc EXCEPT ![r] = next]

Goto(r, next) ==
    /\ pc' = [pc EXCEPT ![r] = next]
    /\ UNCHANGED response

\* Lines 86-101: parse the body, validate it, check the tool directory.
Receive(r) ==
    /\ pc[r] = "idle"
    /\ \E body \in Bodies, lib \in GetJsonBehaviours :
         LET v == ValidationOutcome(body, lib)
         IN  /\ body.kind # "none" => lib = "raises"
             /\ data' = [data EXCEPT ![r] = body]
             /\ IF v = "raise" THEN Return(r, ServerErrorResponse, "done")
                ELSE IF v = "missing" THEN Return(r, NoContentResponse, "done")
                ELSE IF ~toolDirExists THEN Return(r, ToolDirMissingResponse, "done")
                ELSE Goto(r, "create_tmp")
    /\ UNCHANGED <<fsVars, bgpc, tmp_name, input_path, cmd, built, slowBuild,
                   toolOutcome, fmtVars>>

\* Lines 104-108: NamedTemporaryFile(delete=False) creates a file under a name
\* no file has, then the content is written. An exception of the write leaves
\* the with block, which only closes the file, and reaches the outer handler
\* of lines 216-220.
CreateTemp(r) ==
    /\ pc[r] = "create_tmp"
    /\ \E n \in Names :
         /\ inFile[n] = 0
         /\ inFile' = [inFile EXCEPT ![n] = r]
         /\ tmp_name' = [tmp_name EXCEPT ![r] = n]
         /\ IF WriteRaises(data[r])
            THEN /\ Return(r, ServerErrorResponse, "done")
                 /\ UNCHANGED input_path
            ELSE /\ Goto(r, "check_build")
                 /\ input_path' = [input_path EXCEPT ![r] = n]
    /\ UNCHANGED <<toolDirExists, buildDirExists, buildFiles, outFile, bgpc, data,
                   cmd, built, slowBuild, toolOutcome, fmtVars>>

\* Lines 116-117: build_moonsec() is called when BUILD_PATH does not exist;
\* it starts with `dotnet clean`.
CheckBuild(r) ==
    /\ pc[r] = "check_build"
    /\ IF BuildNeeded
       THEN /\ Goto(r, "clean")
            /\ built' = [built EXCEPT ![r] = TRUE]
       ELSE /\ Goto(r, "find_exe")
            /\ UNCHANGED built
    /\ UNCHANGED <<fsVars, bgpc, data, tmp_name, input_path, cmd, slowBuild,
                   toolOutcome, fmtVars>>

\* Lines 35-40: `dotnet clean` ends. Its return code is ignored; it removes
\* the build products or fails to. "raise": the command could not be started.
CleanOutcomes == {"cleaned", "unchanged", "raise"}

CleanEffect(out) ==
    /\ buildFiles' = (IF out = "cleaned" THEN {} ELSE buildFiles)
    /\ UNCHANGED <<toolDirExists, buildDirExists, inFile, outFile>>

\* Lines 42-58: `dotnet build` ends. "ok": return code 0, BUILD_PATH holds
\* the products.
BuildEffect(ok, products) ==
    /\ buildDirExists' = (ok \/ buildDirExists)
    /\ buildFiles' = (IF ok THEN products ELSE buildFiles)
    /\ UNCHANGED <<toolDirExists, inFile, outFile>>

CleanDone(r) ==
    /\ pc[r] = "clean"
    /\ \E out \in CleanOutcomes :
         /\ CleanEffect(out)
         /\ IF out = "raise"
            THEN Return(r, BuildFailedResponse, "cleanup_in")
            ELSE Goto(r, "build")
    /\ UNCHANGED <<bgpc, data, tmp_name, input_path, cmd, built, slowBuild,
                   toolOutcome, fmtVars>>

\* The build has no timeout: it may run longer than ToolTimeout seconds.
BuildDone(r) ==
    /\ pc[r] = "build"
    /\ \E ok \in BOOLEAN, products \in BuildProducts, seconds \in {1, ToolTimeout + 1} :
         /\ BuildEffect(ok, products)
         /\ slowBuild' = [slowBuild EXCEPT ![r] = seconds > ToolTimeout]
         /\ IF ok
            THEN Goto(r, "find_exe")
            ELSE Return(r, BuildFailedResponse, "cleanup_in")
    /\ UNCHANGED <<bgpc, data, tmp_name, input_path, cmd, built, toolOutcome,
                   fmtVars>>

\* Lines 290-294: the build thread started at startup.
BgCleanDone ==
    /\ bgpc = "clean"
    /\ \E out \in CleanOutcomes :
         /\ CleanEffect(out)
         /\ bgpc' = (IF out = "raise" THEN "done" ELSE "build")
    /\ UNCHANGED <<reqVars, fmtVars>>

BgBuildDone ==
    /\ bgpc = "build"
    /\ \E ok \in BOOLEAN, products \in BuildProducts : BuildEffect(ok, products)
    /\ bgpc' = "done"
    /\ UNCHANGED <<reqVars, fmtVars>>

\* Lines 112-113 and 123-148: probe the candidates, fall back to the dll,
\* build the command line with the mode flag.
FindExe(r) ==
    /\ pc[r] = "find_exe"
    /\ \E d \in BOOLEAN :
         LET body == [data[r] EXCEPT !.disassembly = d]
         IN  IF exe_path # "none"
             THEN /\ cmd' = [cmd EXCEPT ![r] = [exe |-> exe_path, flag |-> command(body)]]
                  /\ data' = [data EXCEPT ![r] = body]
                  /\ Goto(r, "run")
             ELSE IF "dll" \in buildFiles
             THEN /\ cmd' = [cmd EXCEPT ![r] = [exe |-> "dll", flag |-> command(body)]]
                  /\ data' = [data EXCEPT ![r] = body]
                  /\ Goto(r, "run")
             ELSE /\ d = FALSE
                  /\ Return(r, ExeNotFoundResponse, "cleanup_in")
                  /\ UNCHANGED <<cmd, data>>
    /\ UNCHANGED <<fsVars, bgpc, tmp_name, input_path, built, slowBuild,
                   toolOutcome, fmtVars>>

\* Lines 153-173 and 196-205: subprocess.run of the tool, at most ToolTimeout
\* seconds. The tool is a black box: it ends with return code 0, with
\* another one, or is killed at the timeout, and in each case it may have
\* written its output file. When a concurrent `dotnet clean` has removed the
\* executable the start raises FileNotFoundError; a removed dll makes dotnet
\* exit with an error.
ToolOutcomes == {"ok", "nonzero", "timeout"}

RunTool(r) ==
    /\ pc[r] = "run"
    /\ \E out \in ToolOutcomes, wrote \in BOOLEAN, t \in ToolOutputs :
         LET gone == cmd[r].exe \notin buildFiles
             how  == IF ~gone THEN out
                     ELSE IF cmd[r].exe = "dll" THEN "nonzero" ELSE "oserror"
             n    == input_path[r]
         IN  /\ gone => (out = "ok" /\ ~wrote)
             /\ ~wrote => t = <<>>
             /\ toolOutcome' = [toolOutcome EXCEPT ![r] = how]
             \* cmd is not read after line 160: only its mode flag is kept.
             /\ cmd' = [cmd EXCEPT ![r].exe = "none"]
             /\ outFile' = IF wrote
                           THEN [outFile EXCEPT ![n] = [owner |-> r, text |-> t]]
                           ELSE outFile
             /\ CASE how = "ok"      -> Goto(r, "read_output")
                  [] how = "nonzero" -> Return(r, ToolFailedResponse, "cleanup_in")
                  [] how = "timeout" -> Return(r, TimeoutResponse, "cleanup_in")
                  [] OTHER           -> Return(r, ProcessingErrorResponse, "cleanup_in")
    /\ UNCHANGED <<toolDirExists, buildDirExists, buildFiles, inFile, bgpc, data,
                   tmp_name, input_path, built, slowBuild, fmtVars>>

\* Lines 175-194: read the output file when it exists, format it when asked.
ReadOutput(r) ==
    /\ pc[r] = "read_output"
    /\ \E pretty \in BOOLEAN :
         LET f == outFile[input_path[r]]
             output_content ==
                 IF pretty
                 THEN format_output(f.text, data[r].disassembly)
                 ELSE f.text
         IN  IF f # NoFile
             THEN /\ data' = [data EXCEPT ![r].pretty = pretty]
                  /\ Return(r, SuccessResponse(output_content, format_name(data[r])),
                            "cleanup_in")
             ELSE /\ pretty = TRUE
                  /\ UNCHANGED data
                  /\ Return(r, OutputMissingResponse, "cleanup_in")
    /\ UNCHANGED <<fsVars, bgpc, tmp_name, input_path, cmd, built, slowBuild,
                   toolOutcome, fmtVars>>

\* Lines 208-210: unlink the input file when it exists. os.unlink is taken
\* not to fail (an exception of it is swallowed by lines 213-214).
CleanupInput(r) ==
    /\ pc[r] = "cleanup_in"
    /\ inFile' = [inFile EXCEPT ![input_path[r]] = 0]
    /\ Goto(r, "cleanup_out")
    /\ UNCHANGED <<toolDirExists, buildDirExists, buildFiles, outFile, bgpc, data,
                   tmp_name, input_path, cmd, built, slowBuild, toolOutcome, fmtVars>>

\* Lines 211-212: unlink the output file when it exists; the response leaves.
CleanupOutput(r) ==
    /\ pc[r] = "cleanup_out"
    /\ outFile' = [outFile EXCEPT ![input_path[r]] = NoFile]
    /\ Goto(r, "done")
    /\ UNCHANGED <<toolDirExists, buildDirExists, buildFiles, inFile, bgpc, data,
                   tmp_name, input_path, cmd, built, slowBuild, toolOutcome, fmtVars>>

Next ==
    \/ \E r \in Requests : Receive(r)
    \/ \E r \in Requests : CreateTemp(r)
    \/ \E r \in Requests : CheckBuild(r)
    \/ \E r \in Requests : CleanDone(r)
    \/ \E r \in Requests : BuildDone(r)
    \/ \E r \in Requests : FindExe(r)
    \/ \E r \in Requests : RunTool(r)
    \/ \E r \in Requests : ReadOutput(r)
    \/ \E r \in Requests : CleanupInput(r)
    \/ \E r \in Requests : CleanupOutput(r)
    \/ BgCleanDone
    \/ BgBuildDone

Spec == Init /\ [][Next]_vars

\* ------------------------------------------------ the formatter on its own

InitFmt ==
    /\ text \in Texts
    /\ disassembly_mode \in BOOLEAN
    /\ fmtPrev = text
    /\ fmtOut = text
    /\ passes = 0
    \* No request is served while the formatter is exercised.
    /\ toolDirExists = FALSE /\ buildDirExists = FALSE /\ buildFiles = {}
    /\ inFile = [n \in Names |-> 0]
    /\ outFile = [n \in Names |-> NoFile]
    /\ bgpc = "off"
    /\ pc = [r \in Requests |-> "idle"]
    /\ data = [r \in Requests |-> NoBody]
    /\ tmp_name = [r \in Requests |-> 0]
    /\ input_path = [r \in Requests |-> 0]
    /\ cmd = [r \in Requests |-> [exe |-> "none", flag |-> ""]]
    /\ response = [r \in Requests |-> NoResponse]
    /\ built = [r \in Requests |-> FALSE]
    /\ slowBuild = [r \in Requests |-> FALSE]
    /\ toolOutcome = [r \in Requests |-> "not run"]

ApplyFormat ==
    /\ passes < MaxPasses
    /\ fmtPrev' = fmtOut
    /\ fmtOut' = format_output(fmtOut, disassembly_mode)
    /\ passes' = passes + 1
    /\ UNCHANGED <<text, disassembly_mode, fsVars, bgpc, reqVars>>

NextFmt == ApplyFormat

SpecFmt == InitFmt /\ [][NextFmt]_vars

\* ------------------------------------------------------------------ claims

\* The handler of r has started and its response has not left yet.
InFlight(r) == pc[r] \notin {"idle", "done"}

\* Neither the input file r created nor an output file written for r exists.
OwnFilesGone(r) ==
    \A n \in Names : inFile[n] # r /\ outFile[n].owner # r

\* The builds (clean + build) running at this moment.
RunningBuilds ==
    Cardinality({r \in Requests : pc[r] \in {"clean", "build"}})
    + (IF bgpc \in {"clean", "build"} THEN 1 ELSE 0)

\* C1 (as claimed): once the response of a request that created its temp file
\* has left, neither its input file nor its output file exists.
C1_TempFilesRemoved ==
    \A r \in Requests :
        (pc[r] = "done" /\ tmp_name[r] # 0) => OwnFilesGone(r)

\* C2 (as claimed): a request whose body carries no 'content' field gets 400
\* with success false, and creates no temp file, starts no build and no tool.
C2_MissingContentIs400 ==
    \A r \in Requests :
        (pc[r] = "done" /\ ~HasContentField(data[r])) =>
            /\ response[r].status = 400
            /\ ~response[r].success
            /\ tmp_name[r] = 0
            /\ ~built[r]
            /\ toolOutcome[r] = "not run"

\* C3 (as claimed): a request one of whose steps, whichever it is, ran longer
\* than the timeout gets 500 with the timeout error, and its temp files are gone.
C3_AnyLongStepTimesOut ==
    \A r \in Requests :
        (pc[r] = "done" /\ (slowBuild[r] \/ toolOutcome[r] = "timeout")) =>
            /\ response[r] = TimeoutResponse
            /\ OwnFilesGone(r)

\* C3 (amended): a request whose tool run, the only step with a timeout, was
\* cut at the timeout gets 500 with success false and the timeout error, and
\* once its response has left its temp files are gone.
C3_ToolTimeoutReported ==
    \A r \in Requests :
        toolOutcome[r] = "timeout" =>
            /\ response[r].status = 500
            /\ ~response[r].success
            /\ response[r].error = "Process timed out after 30 seconds"
            /\ pc[r] = "done" => OwnFilesGone(r)

\* C3 witness: a request that built the tool itself, slowly, then ran into the
\* timeout of the tool run, while the other request was in flight too.
C3_Witness ==
    \E r, q \in Requests :
        /\ r # q /\ InFlight(q)
        /\ pc[r] = "done" /\ toolOutcome[r] = "timeout"
        /\ built[r] /\ slowBuild[r]

\* C4: every response has a result iff success iff status 200, an error iff
\* not success, and a failure has status 400, for missing input only, or 500.
C4_ResponseShape ==
    \A r \in Requests :
        pc[r] = "done" =>
            LET x == response[r]
            IN  /\ x.status \in {200, 400, 500}
                /\ (x.result # NoResult) <=> x.success
                /\ x.success <=> (x.status = 200)
                /\ (x.error # "") <=> ~x.success
                /\ (x.format # "") <=> x.success
                /\ x.status = 400 =>
                       (~HasContentField(data[r]) /\ x.error = "No content provided")
                /\ x.status = 500 => x.error # "No content provided"

\* C4 witness: one request answered 200 and another answered 400.
C4_Witness ==
    \E r, q \in Requests :
        /\ pc[r] = "done" /\ response[r].status = 200
        /\ pc[q] = "done" /\ response[q].status = 400

\* C5 (as claimed): a successful response to a request with string content
\* has a non-empty result, and its format is the requested mode and the mode
\* flag the tool was given.
C5_SuccessResultNonEmpty ==
    \A r \in Requests :
        (pc[r] = "done" /\ response[r].success /\ data[r].content = "str") =>
            /\ response[r].result # <<>>
            /\ response[r].format = format_name(data[r])
            /\ (response[r].format = "disassembly") <=> (cmd[r].flag = "-dis")

\* C6 (as claimed): no request answers that the executable was not found
\* without having run a build first.
C6_NotFoundOnlyAfterBuild ==
    \A r \in Requests :
        response[r] = ExeNotFoundResponse => built[r]

\* C9: nothing guards the build: every request that finds BUILD_PATH missing
\* starts its own clean + build, whatever builds are running already.
C9_EveryMissObserverBuilds ==
    [][\A r \in Requests :
          (pc[r] = "check_build" /\ ~buildDirExists /\ pc'[r] # "check_build")
              => (pc'[r] = "clean" /\ built'[r])]_vars

\* C9 witness: two requests and the startup thread each run a build at once.
C9_Witness ==
    /\ \E r, q \in Requests : r # q /\ pc[r] \in {"clean", "build"}
                                    /\ pc[q] \in {"clean", "build"}
    /\ RunningBuilds > 2

\* C10 (as claimed): the input paths (and so the output paths) of two requests
\* in flight are distinct.
C10_PathsDistinct ==
    \A r, q \in Requests :
        (r # q /\ InFlight(r) /\ InFlight(q)
             /\ input_path[r] # 0 /\ input_path[q] # 0)
            => input_path[r] # input_path[q]

\* The positions of x that start a line: 1, and the one after each newline.
LineStarts(x) == {1} \cup {i + 1 : i \in {j \in 1..Len(x) : x[j] = "\n"}}

\* The last position of the line starting at p (p - 1 for an empty line).
LineEnd(x, p) ==
    LET nl == {i \in p..Len(x) : x[i] = "\n"}
    IN  IF nl = {} THEN Len(x)
        ELSE (CHOOSE i \in nl : \A j \in nl : i <= j) - 1

\* The positions of the line starting at p that hold a non-whitespace character.
Ink(x, p) == {i \in p..LineEnd(x, p) : x[i] \notin Whitespace}

\* The non-blank lines of x from line start p on, each cut after its last
\* non-whitespace character, joined by newlines.
RECURSIVE NonBlankFrom(_, _)
NonBlankFrom(x, p) ==
    LET later == {q \in LineStarts(x) : q > p /\ Ink(x, q) # {}}
        last  == CHOOSE i \in Ink(x, p) : \A j \in Ink(x, p) : j <= i
        next  == CHOOSE q \in later : \A q2 \in later : q <= q2
    IN  SubSeq(x, p, last)
        \o (IF later = {} THEN <<>> ELSE <<"\n">> \o NonBlankFrom(x, next))

NonBlankLines(x) ==
    LET starts == {q \in LineStarts(x) : Ink(x, q) # {}}
    IN  IF starts = {} THEN <<>>
        ELSE NonBlankFrom(x, CHOOSE q \in starts : \A q2 \in starts : q <= q2)

\* C7: in disassembly mode one application of format_output yields exactly the
\* non-blank lines of its argument, in order, each without its trailing
\* whitespace, and a second application changes nothing.
C7_DisassemblyIdempotent ==
    disassembly_mode =>
        /\ passes >= 1 => fmtOut = NonBlankLines(fmtPrev)
        /\ passes >= 2 => fmtOut = fmtPrev

\* C7 witness: a text with a blank line and trailing whitespace, which the first
\* application changed, after the second application.
C7_Witness ==
    /\ disassembly_mode
    /\ passes = 2
    /\ fmtOut # text
    /\ fmtOut # <<>>
    /\ \E i \in 1..Len(text) : text[i] = "\n"

\* C8: in bytecode mode a second application of format_output returns its
\* argument unchanged: the line breaks it inserts are all removed again.
C8_BytecodeConverges ==
    (~disassembly_mode /\ passes >= 2) => fmtOut = fmtPrev

\* C8 witness: a text with a semicolon and a brace, in which the first
\* application inserted line breaks, after the second application.
C8_Witness ==
    /\ ~disassembly_mode
    /\ passes = 2
    /\ Len(fmtOut) > Len(text)
    /\ \E i \in 1..Len(text) : text[i] = ";"
    /\ \E i \in 1..Len(text) : text[i] \in {"{", "}"}

====
